---- MODULE Spec2Model ----
(***************************************************************************)
(* Model of the M4B export pipeline of text-2-audiobook.                   *)
(*                                                                         *)
(*   Spec     one call of encodeToM4b (src/audio/m4bEncoder.ts, the later  *)
(*            version of the file, lines 331-762): capability check,       *)
(*            optional resampling, the WebCodecs AudioEncoder session      *)
(*            driven by processNextChunk, and the hand-over to the muxer.  *)
(*            The AudioEncoder, the scheduler (requestIdleCallback /       *)
(*            setTimeout) and the user pressing Cancel are the             *)
(*            environment.                                                 *)
(*   SpecApp  handleGenerate and handleCancel of App.tsx for a text that   *)
(*            splitTextIntoParts cut into parts; the awaited synthesis     *)
(*            and encode calls resolve or reject.                          *)
(*   SpecTime framesToTimestampUs and microsecondsToTimescaleUnits of      *)
(*            src/audio/time.ts and the conversion of the muxer's sample   *)
(*            loop, applied to a run of equal frames at the real rates.    *)
(*   SpecChapters  createChapterMetadata (src/audio/mp3Encoder.ts) applied *)
(*            to the Chapter records of a text.                            *)
(*   SpecEngines   getAvailableEngines and getDefaultEngine of             *)
(*            src/tts/engineFactory.ts with the module's availability      *)
(*            cache, while the engines' isAvailable answers change.        *)
(*   SpecResample  the output length of resampleAudio (m4bEncoder.ts).     *)
(*   SpecSynth     the chunk loop of synthesizeToPcm (samEngine.ts,        *)
(*            piperEngine.ts) with an AbortSignal raised at any await.     *)
(*   SpecSplit     splitTextIntoParts (src/utils/textSplitter.ts).         *)
(*   SpecKokoro    getKokoroInstance (piperEngine.ts) called by several    *)
(*            callers while the load resolves or rejects.                  *)
(*                                                                         *)
(* Time is kept in integer microseconds.  The sample rate and the codec    *)
(* frame size are scaled down (SampleRate, FrameSize) so that the          *)
(* products the code computes stay inside TLC's integers; the arithmetic   *)
(* is the code's.                                                          *)
(***************************************************************************)
EXTENDS Integers, Sequences, FiniteSets, TLC

\* ---------------------------------------------------------------- bounds
\* frames per second of the audio handed to the encoder (48000 in the code)
SampleRate == 4
\* frames per encoded AAC frame produced by the codec (1024 for AAC-LC)
FrameSize == 2
\* largest input, in frames per channel
MaxFrames == 9
\* largest number of parts splitTextIntoParts returns in the model
MaxParts == 3
\* largest number of chapters handed to encodeToM4b
MaxChapters == 2
\* largest byte count the muxer's output stream reports
MaxBytes == 2
\* frames converted in one run of the time conversions
MaxRun == 3
\* characters of a chapter's extent that are not chapter text (the "# "
\* heading line and the trimmed newlines)
MarkerLen == 5
\* engines in allEngines; the last one is the preview-only engine
MaxEngines == 3
\* longest buffer handed to resampleAudio, in frames
MaxInLength == 24
\* most chunks a text is cut into by synthesizeToPcm
MaxSynthChunks == 4
\* longest text given to splitTextIntoParts, in words, and largest target
MaxWords == 4
MaxTarget == 2
\* concurrent callers of getKokoroInstance
MaxCallers == 5

\* ------------------------------------------------------------- constants
UsPerSecond == 1000000

Channels == {1, 2}
\* sample rates of the caller's PcmAudio: already at the target, or twice it
InputRates == {SampleRate, 2 * SampleRate}

\* samples per AAC-LC frame, and the rate the encoder is configured with
AacFrame == 1024
TargetRate == 48000
\* createChapterMetadata allots 0.05 s to a character and writes milliseconds
CharsPerSecond == 20
MsPerSecond == 1000

Min(a, b) == IF a <= b THEN a ELSE b
Max(a, b) == IF a >= b THEN a ELSE b

\* quotient and remainder of the product a * b by 1_000_000, computed in
\* parts so that no intermediate value leaves 32-bit integers
MillionthsLow(a, b) ==
  (((a \div 1000) * b) % 1000) * 1000 + (a % 1000) * b
MillionthsQuot(a, b) ==
  ((a \div 1000) * b) \div 1000 + MillionthsLow(a, b) \div UsPerSecond
MillionthsRem(a, b) == MillionthsLow(a, b) % UsPerSecond

\* what Math.round adds to the whole part of a quotient with remainder rest
RoundUp(rest, d) == IF 2 * rest >= d THEN 1 ELSE 0
CeilDiv(a, b) == (a + b - 1) \div b

VARIABLES
  \* ---- the caller's PcmAudio and the environment (fixed per behaviour)
  audioFrames,      \* audio.samples.length / audio.channels
  audioRate,        \* audio.sampleRate
  channels,         \* audio.channels
  monoSupported,    \* AudioEncoder.isConfigSupported(AAC-LC, target rate, 1 channel)
  stereoSupported,  \* the same for 2 channels
  hasIdleCallback,  \* typeof requestIdleCallback !== 'undefined'
  numChapters,      \* chapters.length of the encodeToM4b call
  \* ---- encodeToM4b
  pc,               \* "idle", "checkSupport", "resampling", "encoding", "muxing", "done"
  result,           \* "none", "success", "error", "canceled"
  percent,          \* last value given to the caller's onProgress, in 1/100 percent; -1 = never
  aborted,          \* the user's AbortController signal
  \* ---- encodePcmToAac
  processedFrames,  \* processedAudio.samples.length / channels
  resamplingProgress,
  encoderState,     \* "none", "configured", "closed"
  closeCalled,      \* encoder.close() was called by the pipeline
  isFlushing,
  offset,           \* in samples (interleaved)
  sampleTimestamp,
  lastTimestamp,
  chunks,           \* collected EncodedChunk records
  promise,          \* "none", "pending", "resolved", "rejected"
  scheduled,        \* the deferred processNextChunk: "none", "idle", "timer"
  \* ---- the encoder (environment) and history
  submitted,        \* the encoder.encode calls, in call order
  flushCalled,
  flushResolved,
  emitted,          \* indices of the codec frames already delivered to output
  errorFired,
  submittedAtError,
  abortedAt,        \* Len(submitted) when the user cancelled mid-encode, else -1
  decoderConfig,    \* "null" or "desc": metadata.decoderConfig captured by output
  encodeReports,    \* history: onProgress calls made by the output callback and by flush
  flushCalls,       \* history: number of encoder.flush() calls
  callbackThrew,    \* history: a deferred processNextChunk ended by an exception
  \* ---- muxAacToM4b
  muxInvoked,
  muxInput,         \* the encodedChunks argument
  muxPromise,       \* "none", "resolved", "rejected"
  samples,          \* the addSample calls: duration and dts in timescale units
  chapterTrack,     \* the muxer added a chapter text track
  trackDescription, \* description given to addTrack: "unset" (no track), "none", "desc"
  payloadLen,       \* arrayBuffer.byteLength of the muxed output; -1 = none
  payloadAllZero,   \* every byte of that arrayBuffer is zero
  \* ---- App: handleGenerate / handleCancel (multi-part generation)
  numParts,         \* textParts.length
  m4bSupported,     \* App state set from isM4bSupported() at start-up
  appPc,            \* "idle", "synth", "mp3", "m4b", "single", "finished"
  partIdx,          \* partNumber of the part the loop is working on
  partStatus,       \* PartState.status per partNumber
  partError,        \* PartState.error per partNumber: "none", "Cancelled", "failure"
  signalAborted,    \* abortControllerRef.current.signal.aborted
  isGenerating,
  useMultiPart,
  cancelledParts,   \* history: the parts in progress when the user cancelled
  \* ---- time.ts and the muxer's conversion, applied to a run of frames
  timeRate,         \* sampleRate, also the track timescale
  frameLen,         \* samples per encoded frame
  frameIdx,         \* frames converted so far
  timePc,           \* "stamp", "convert"
  durationUs,       \* timestamp difference of the frame being converted
  units,            \* microsecondsToTimescaleUnits of durationUs; -1 = none
  durationInTimescale, \* the muxer's conversion of durationUs; -1 = none
  totalUnits,       \* sum of units over the frames so far
  totalTicks,       \* sum of durationInTimescale over the frames so far
  \* ---- createChapterMetadata
  chapterList,      \* the Chapter records: text length and startIndex
  totalTextLength,  \* length of the text the chapters were parsed from
  totalDurationMs,  \* duration of the audio, in milliseconds
  chapPc,           \* "loop", "returned"
  currentSample,
  chapterStarts,    \* the START values written so far, in milliseconds
  \* ---- engineFactory.ts
  engEnv,           \* what each engine's isAvailable() answers now
  engineAvailability, \* the module's cache: "undefined", "true", "false" per engine
  engResults,       \* 'available' per engine in the last getAvailableEngines result
  engEnvAtQuery,    \* history: engEnv when that result was returned
  engDefault,       \* last getDefaultEngine result: -1 not called, 0 null, else the engine
  \* ---- resampleAudio
  inLength,         \* audio.samples.length / audio.channels
  inRate,           \* audio.sampleRate
  outLength,        \* length of the rendered buffer; -1 = not resampled yet
  \* ---- synthesizeToPcm (SAM and Kokoro engines)
  synthEngine,      \* "sam", "kokoro"
  synthChunks,      \* chunks.length
  synthPc,          \* "start", "loading", "loopTop", "generate", "yield", "done"
  synthIdx,         \* the loop's i
  synthSignal,      \* signal.aborted
  synthResult,      \* "none", "audio", "AbortError"
  \* ---- splitTextIntoParts
  splitText,        \* the text's words in order: TRUE for a word that ends a sentence
  targetWordsPerPart,
  splitPc,          \* "loop", "returned"
  sentIdx,          \* sentences taken by the for loop
  currentPart,      \* words of the sentences in currentPart
  currentSentences, \* currentPart.length
  currentWordCount,
  parts,            \* the words of each part pushed
  \* ---- getKokoroInstance
  kokoroInstance,   \* "null", "tts"
  kokoroLoading,    \* "null", "pending", "resolved", "rejected"
  kokoroReturned,   \* what the last call returned: "none", "instance", "joined", "fresh"
  kokoroJoinedRejected, \* history: the last call returned an already rejected promise
  kokoroLoads,      \* history: loads started
  kokoroCallers     \* per caller: "idle", "waiting", "tts", "failed"

vars == << audioFrames, audioRate, channels, monoSupported, stereoSupported,
           hasIdleCallback, pc, result, percent, aborted, processedFrames,
           resamplingProgress, encoderState, closeCalled, isFlushing, offset,
           sampleTimestamp, lastTimestamp, chunks, promise, scheduled,
           submitted, flushCalled, flushResolved, emitted, errorFired,
           submittedAtError, abortedAt, decoderConfig, muxInvoked, muxInput,
           muxPromise, numChapters, encodeReports, flushCalls,
           callbackThrew, samples, chapterTrack,
           trackDescription,
           payloadLen, payloadAllZero, numParts, m4bSupported, appPc, partIdx, partStatus,
           partError, signalAborted, isGenerating, useMultiPart,
           cancelledParts, timeRate, frameLen, frameIdx, timePc, durationUs,
           units, durationInTimescale, totalUnits, totalTicks, chapterList,
           totalTextLength, totalDurationMs, chapPc, currentSample,
           chapterStarts, engEnv, engineAvailability, engResults,
           engEnvAtQuery, engDefault, inLength, inRate, outLength,
           synthEngine, synthChunks, synthPc, synthIdx, synthSignal,
           synthResult, splitText, targetWordsPerPart, splitPc, sentIdx,
           currentPart, currentSentences, currentWordCount, parts,
           kokoroInstance, kokoroLoading, kokoroReturned,
           kokoroJoinedRejected, kokoroLoads, kokoroCallers >>

engVars == << engEnv, engineAvailability, engResults, engEnvAtQuery,
              engDefault >>

resVars == << inLength, inRate, outLength >>

synthVars == << synthEngine, synthChunks, synthPc, synthIdx, synthSignal,
                synthResult >>

splitVars == << splitText, targetWordsPerPart, splitPc, sentIdx, currentPart,
                currentSentences, currentWordCount, parts >>

kokoroVars == << kokoroInstance, kokoroLoading, kokoroReturned,
                 kokoroJoinedRejected, kokoroLoads, kokoroCallers >>

\* the state of the modules outside the M4B pipeline
extVars == << engVars, resVars, synthVars, splitVars, kokoroVars >>

timeVars == << timeRate, frameLen, frameIdx, timePc, durationUs, units,
               durationInTimescale, totalUnits, totalTicks >>

chapVars == << chapterList, totalTextLength, totalDurationMs, chapPc,
               currentSample, chapterStarts >>

appVars == << numParts, m4bSupported, appPc, partIdx, partStatus, partError,
              signalAborted, isGenerating, useMultiPart, cancelledParts >>

inputVars == << audioFrames, audioRate, channels, monoSupported,
                stereoSupported, hasIdleCallback, numChapters >>

\* what muxAacToM4b produces
muxOut == << samples, chapterTrack, trackDescription, payloadLen,
            payloadAllZero >>

\* what the encode session leaves alone: its inputs and the App's state
otherVars == << inputVars, appVars, timeVars, chapVars, extVars >>

runVars == << inputVars, pc, result, percent, aborted, processedFrames,
              resamplingProgress, encoderState, closeCalled, isFlushing,
              offset, sampleTimestamp, lastTimestamp, chunks, promise,
              scheduled, submitted, flushCalled, flushResolved, emitted,
              errorFired, submittedAtError, abortedAt, decoderConfig,
              muxInvoked, muxInput, muxPromise, encodeReports, flushCalls,
              callbackThrew, muxOut >>

\* what the App's handlers leave alone
encVars == << runVars, timeVars, chapVars, extVars >>

\* the M4B pipeline, the App and the conversions
baseVars == << runVars, appVars, timeVars, chapVars >>

\* ------------------------------------------------------------ capability
\* AudioEncoder.isConfigSupported for AAC-LC at the target rate
ConfigSupported(numberOfChannels) ==
  IF numberOfChannels = 1 THEN monoSupported ELSE stereoSupported

\* isM4bSupported probes a fixed configuration: 48 kHz, one channel
isM4bSupported == ConfigSupported(1)

\* the configuration encodePcmToAac passes to encoder.configure
UsedConfigSupported == ConfigSupported(channels)

\* -------------------------------------------------------------- resample
\* length of the OfflineAudioContext the resampler renders into
ResampledLength(frames, fromRate, toRate) == CeilDiv(frames * toRate, fromRate)

NeedsResample == audioRate # SampleRate

\* ----------------------------------------------------------- chunk sizes
chunkSize == SampleRate * channels
SamplesLength == processedFrames * channels
NumChunks == CeilDiv(processedFrames, SampleRate)
TotalDurationUs == (processedFrames * UsPerSecond) \div SampleRate
FramePeriodUs == (FrameSize * UsPerSecond) \div SampleRate
FallbackDurationUs == UsPerSecond \div SampleRate

\* timestamp given to new AudioData
AudioDataTimestamp(st) == st * UsPerSecond

\* hundredths of a percent, as encodeToM4b maps the stages onto 0..100
EncodeStagePercent(p) == 500 + (p * 6) \div 10
MuxStagePercent(p) == 6500 + (p * 35) \div 100

\* ------------------------------------------------- the encoder's stream
RECURSIVE SumFrames(_)
SumFrames(s) == IF s = << >> THEN 0 ELSE Head(s).frames + SumFrames(Tail(s))

\* frames the encoder has been given so far
SubmittedFrames == SumFrames(submitted)

\* codec frames the encoder can deliver: complete ones, and after flush the
\* padded last one
ReadyFrames ==
  { j \in 0..MaxFrames :
      \/ (j + 1) * FrameSize <= SubmittedFrames
      \/ flushCalled /\ j * FrameSize < SubmittedFrames }

\* the AudioData that holds frame position s of the encoder's input stream
ChunkOf(s) ==
  CHOOSE i \in 1..Len(submitted) :
    submitted[i].start <= s /\ s < submitted[i].start + submitted[i].frames

\* timestamp of an EncodedAudioChunk: that of the AudioData its first frame
\* came from, advanced by the frames before it in that AudioData
FrameTimestamp(j) ==
  LET s == j * FrameSize
      c == submitted[ChunkOf(s)]
  IN  c.timestamp + ((s - c.start) * UsPerSecond) \div SampleRate

\* --------------------------------------------------- processNextChunk
\* faulty variant of EndOfInput: the end test is one chunk early
EndOfInputEarly(off, len) == off + chunkSize >= len

EndOfInput(off, len) == off >= len

Schedule == IF hasIdleCallback THEN "idle" ELSE "timer"

\* faulty variant of processNextChunk: no isFlushing guard, and the
\* end-of-input branch schedules the next call instead of returning for good
processNextChunkUnguarded(ctx, pFrames) ==
  LET len == pFrames * channels IN
  IF EndOfInput(offset, len)
  THEN /\ flushCalled' = TRUE
       /\ flushCalls' = flushCalls + 1
       /\ scheduled' = Schedule
       /\ UNCHANGED << offset, sampleTimestamp, submitted, isFlushing >>
  ELSE LET end == Min(offset + chunkSize, len)
           frameCount == (end - offset) \div channels
       IN  /\ submitted' = Append(submitted,
                 [ index      |-> offset \div chunkSize,
                   start      |-> SubmittedFrames,
                   frames     |-> frameCount,
                   timestamp  |-> AudioDataTimestamp(sampleTimestamp),
                   ctx        |-> ctx,
                   afterFlush |-> flushCalled ])
           /\ offset' = end
           /\ sampleTimestamp' = sampleTimestamp + frameCount
           /\ scheduled' = Schedule
           /\ UNCHANGED << isFlushing, flushCalled, flushCalls >>

processNextChunk(ctx, pFrames) ==
  LET len == pFrames * channels IN
  IF isFlushing
  THEN /\ scheduled' = "none"
       /\ UNCHANGED << offset, sampleTimestamp, isFlushing, flushCalled,
                       flushCalls, submitted >>
  ELSE IF EndOfInput(offset, len)
  THEN /\ isFlushing' = TRUE
       /\ flushCalled' = TRUE
       /\ flushCalls' = flushCalls + 1
       /\ scheduled' = "none"
       /\ UNCHANGED << offset, sampleTimestamp, submitted >>
  ELSE LET end == Min(offset + chunkSize, len)
           frameCount == (end - offset) \div channels
       IN  /\ submitted' = Append(submitted,
                 [ index      |-> offset \div chunkSize,
                   start      |-> SubmittedFrames,
                   frames     |-> frameCount,
                   timestamp  |-> AudioDataTimestamp(sampleTimestamp),
                   ctx        |-> ctx,
                   afterFlush |-> flushCalled ])
           /\ offset' = end
           /\ sampleTimestamp' = sampleTimestamp + frameCount
           /\ scheduled' = Schedule
           /\ UNCHANGED << isFlushing, flushCalled, flushCalls >>

\* the body of the Promise executor in encodePcmToAac: new AudioEncoder,
\* configure, first processNextChunk call
Executor(pFrames) ==
  /\ processedFrames' = pFrames
  /\ encoderState' = "configured"
  /\ promise' = "pending"
  /\ processNextChunk("sync", pFrames)
  /\ pc' = "encoding"
  /\ UNCHANGED << lastTimestamp, chunks, decoderConfig, closeCalled >>

\* ------------------------------------------------------------- actions
EncodeToM4b ==
  /\ pc = "idle"
  /\ pc' = "checkSupport"
  /\ UNCHANGED << otherVars, flushCalls, callbackThrew, muxOut,
                  encodeReports, result, percent, aborted, processedFrames,
                  resamplingProgress, encoderState, closeCalled, isFlushing,
                  offset, sampleTimestamp, lastTimestamp, chunks, promise,
                  scheduled, submitted, flushCalled, flushResolved, emitted,
                  errorFired, submittedAtError, abortedAt, decoderConfig,
                  muxInvoked, muxInput, muxPromise >>

\* isM4bSupported has answered
SupportChecked ==
  /\ pc = "checkSupport"
  /\ IF ~isM4bSupported
     THEN /\ pc' = "done"
          /\ result' = "error"
          /\ UNCHANGED << percent, processedFrames, resamplingProgress,
                          encoderState, closeCalled, isFlushing, offset,
                          sampleTimestamp, lastTimestamp, chunks, promise,
                          scheduled, submitted, flushCalled, flushCalls, decoderConfig >>
     ELSE IF NeedsResample
     THEN /\ resamplingProgress' = 10
          /\ percent' = EncodeStagePercent(0)
          /\ pc' = "resampling"
          /\ UNCHANGED << result, processedFrames, encoderState, closeCalled,
                          isFlushing, offset, sampleTimestamp, lastTimestamp,
                          chunks, promise, scheduled, submitted, flushCalled,
                          flushCalls, decoderConfig >>
     ELSE /\ percent' = 500
          /\ Executor(audioFrames)
          /\ UNCHANGED << result, resamplingProgress >>
  /\ UNCHANGED << otherVars, callbackThrew, muxOut, encodeReports, aborted,
                  flushResolved, emitted, errorFired, submittedAtError,
                  abortedAt, muxInvoked, muxInput, muxPromise >>

\* resampleAudio has rendered (an OfflineAudioContext of length 0 cannot be
\* constructed: the call throws)
ResampleDone ==
  /\ pc = "resampling"
  /\ LET n == ResampledLength(audioFrames, audioRate, SampleRate) IN
     IF n = 0
     THEN /\ pc' = "done"
          /\ result' = "error"
          /\ UNCHANGED << percent, processedFrames, encoderState, closeCalled,
                          isFlushing, offset, sampleTimestamp, lastTimestamp,
                          chunks, promise, scheduled, submitted, flushCalled,
                          flushCalls, decoderConfig >>
     ELSE /\ percent' = EncodeStagePercent(100 * resamplingProgress)
          /\ Executor(n)
          /\ UNCHANGED result
  /\ UNCHANGED << otherVars, callbackThrew, muxOut, encodeReports, aborted,
                  resamplingProgress, flushResolved, emitted, errorFired,
                  submittedAtError, abortedAt, muxInvoked, muxInput,
                  muxPromise >>

\* the idle callback or the timer runs processNextChunk
ScheduledCallback ==
  /\ scheduled # "none"
  /\ processNextChunk(scheduled, processedFrames)
  /\ UNCHANGED << otherVars, callbackThrew, muxOut, encodeReports, pc,
                  result, percent, aborted, processedFrames,
                  resamplingProgress, encoderState, closeCalled,
                  lastTimestamp, chunks, promise, flushResolved, emitted,
                  errorFired, submittedAtError, abortedAt, decoderConfig,
                  muxInvoked, muxInput, muxPromise >>

\* preparing or submitting the next chunk throws inside the deferred
\* processNextChunk (slice, new AudioData or encode): the callback ends
\* there, nothing catches the exception and nothing is scheduled
CallbackThrows ==
  /\ scheduled # "none"
  /\ ~isFlushing
  /\ ~EndOfInput(offset, processedFrames * channels)
  /\ scheduled' = "none"
  /\ callbackThrew' = TRUE
  /\ UNCHANGED << otherVars, muxOut, encodeReports, flushCalls, pc, result,
                  percent, aborted, processedFrames, resamplingProgress,
                  encoderState, closeCalled, isFlushing, offset,
                  sampleTimestamp, lastTimestamp, chunks, promise, submitted,
                  flushCalled, flushResolved, emitted, errorFired,
                  submittedAtError, abortedAt, decoderConfig, muxInvoked,
                  muxInput, muxPromise >>

\* progress the output callback reports for a chunk timestamp, in 1/100
\* percent of the encode stage (timestamps taken in milliseconds)
OutputProgress(ts) ==
  Min(10000,
      100 * resamplingProgress
        + ((ts \div 1000) * (100 - resamplingProgress) * 100)
            \div (TotalDurationUs \div 1000))

\* duration stored with a collected chunk
ChunkDuration(ts, last) ==
  IF ts - last # 0 THEN ts - last ELSE FallbackDurationUs

\* faulty variant of OutputReports: the test can never succeed
OutputReportsNever(ts) == ts < 0

\* the output callback reports progress only for a chunk past timestamp 0
OutputReports(ts) == ts > 0

\* the encoder delivers codec frame j to the output callback.  A pipelined
\* codec may deliver the ready frames in any order; an encoder whose
\* configuration was rejected delivers nothing.
EncoderOutput(j) ==
  /\ pc = "encoding"
  /\ encoderState = "configured"
  /\ UsedConfigSupported
  /\ ~flushResolved
  /\ j \in ReadyFrames \ emitted
  /\ emitted' = emitted \cup {j}
  /\ LET ts == FrameTimestamp(j) IN
       /\ decoderConfig' = IF emitted = {} /\ decoderConfig = "null"
                           THEN "desc" ELSE decoderConfig
       /\ lastTimestamp' = ts
       /\ chunks' = Append(chunks, [ timestamp |-> ts,
                                     duration  |-> ChunkDuration(ts, lastTimestamp),
                                     frame     |-> j ])
       /\ percent' = IF OutputReports(ts)
                     THEN EncodeStagePercent(OutputProgress(ts))
                     ELSE percent
       /\ encodeReports' = IF OutputReports(ts) THEN encodeReports + 1
                           ELSE encodeReports
  /\ UNCHANGED << otherVars, flushCalls, callbackThrew, muxOut, pc, result,
                  aborted, processedFrames, resamplingProgress, encoderState,
                  closeCalled, isFlushing, offset, sampleTimestamp, promise,
                  scheduled, submitted, flushCalled, flushResolved,
                  errorFired, submittedAtError, abortedAt, muxInvoked,
                  muxInput, muxPromise >>

\* faulty variant of ErrorSetsFlushing: isFlushing is left as it was
ErrorKeepsFlushing(flushing) == flushing

\* value the error callback stores in isFlushing
ErrorSetsFlushing(flushing) == TRUE

\* the encoder fails (rejected configuration, or a codec failure mid-stream):
\* the user agent closes it and invokes the error callback
EncoderError ==
  /\ pc = "encoding"
  /\ encoderState = "configured"
  /\ ~flushResolved
  /\ errorFired' = TRUE
  /\ submittedAtError' = Len(submitted)
  /\ encoderState' = "closed"
  /\ isFlushing' = ErrorSetsFlushing(isFlushing)
  /\ promise' = IF promise = "pending" THEN "rejected" ELSE promise
  /\ UNCHANGED << otherVars, flushCalls, callbackThrew, muxOut,
                  encodeReports, pc, result, percent, aborted,
                  processedFrames, resamplingProgress, closeCalled, offset,
                  sampleTimestamp, lastTimestamp, chunks, scheduled,
                  submitted, flushCalled, flushResolved, emitted, abortedAt,
                  decoderConfig, muxInvoked, muxInput, muxPromise >>

\* encoder.flush() resolves: every output of the submitted work was delivered
FlushResolved ==
  /\ pc = "encoding"
  /\ flushCalled
  /\ ~flushResolved
  /\ encoderState = "configured"
  /\ UsedConfigSupported
  /\ ReadyFrames \subseteq emitted
  /\ flushResolved' = TRUE
  /\ percent' = EncodeStagePercent(10000)
  /\ encodeReports' = encodeReports + 1
  /\ promise' = IF promise = "pending" THEN "resolved" ELSE promise
  /\ UNCHANGED << otherVars, flushCalls, callbackThrew, muxOut, pc, result,
                  aborted, processedFrames, resamplingProgress, encoderState,
                  closeCalled, isFlushing, offset, sampleTimestamp,
                  lastTimestamp, chunks, scheduled, submitted, flushCalled,
                  emitted, errorFired, submittedAtError, abortedAt,
                  decoderConfig, muxInvoked, muxInput, muxPromise >>

\* ------------------------------------------------------------ the muxer
\* a microsecond value in units of the track timescale, as the sample loop
\* converts it: Math.floor(us / (1_000_000 / timescale))
MuxTicks(us, timescale) == MillionthsQuot(us, timescale)

\* duration the sample loop takes for chunk i of the encoded chunks cs
SampleDurationUs(cs, i) ==
  IF cs[i].duration # 0
  THEN cs[i].duration
  ELSE cs[i].timestamp - (IF i > 1 THEN cs[i - 1].timestamp ELSE 0)

\* the addSample calls of the sample loop; the timescale is the sample rate
MuxSamples(cs) ==
  [ i \in 1..Len(cs) |->
      [ duration |-> MuxTicks(SampleDurationUs(cs, i), SampleRate),
        dts      |-> MuxTicks(cs[i].timestamp, SampleRate) ] ]

\* description in the trackOptions given to addTrack, for the decoder
\* configuration cfg handed to muxAacToM4b: the parameter is not read
TrackDescription(cfg) == "none"

\* faulty variant of HasChapterTrack: a track for any non-empty chapter list
ChapterTrackForAny(n) == n > 0

\* whether the muxer adds a chapter track for n chapters: it only logs that
\* chapter metadata is not implemented
HasChapterTrack(n) == FALSE

\* length of the slice taken from the output buffer:
\* position || byteLength || streamBuffer.byteLength
PayloadLength(position, dsLen, bufLen) ==
  IF position # 0 THEN position
  ELSE IF dsLen # 0 THEN dsLen
  ELSE bufLen

\* encodeToM4b resumes after await encodePcmToAac; on success it calls
\* muxAacToM4b, whose executor runs to its end.  What mp4box wrote (the
\* stream position, the stream and buffer lengths, whether any byte is
\* non-zero) is the environment's.
AfterEncode ==
  /\ pc = "encoding"
  /\ promise \in {"resolved", "rejected"}
  /\ IF promise = "rejected"
     THEN /\ pc' = "done"
          /\ result' = "error"
          /\ UNCHANGED << percent, muxInvoked, muxInput, muxPromise, muxOut >>
     ELSE /\ pc' = "muxing"
          /\ muxInvoked' = TRUE
          /\ muxInput' = chunks
          /\ IF Len(chunks) = 0
             THEN /\ muxPromise' = "rejected"
                  /\ percent' = MuxStagePercent(0)
                  /\ UNCHANGED muxOut
             ELSE /\ samples' = MuxSamples(chunks)
                  /\ chapterTrack' = HasChapterTrack(numChapters)
                  /\ trackDescription' = TrackDescription(decoderConfig)
                  /\ \E position \in 0..MaxBytes, dsLen \in 0..MaxBytes,
                        bufLen \in 0..MaxBytes, zeros \in BOOLEAN :
                       /\ position <= dsLen
                       /\ dsLen <= bufLen
                       /\ payloadLen' = PayloadLength(position, dsLen, bufLen)
                       /\ payloadAllZero' = zeros
                  /\ IF payloadLen' = 0
                     THEN /\ muxPromise' = "rejected"
                          /\ percent' = MuxStagePercent(7000)
                     ELSE /\ muxPromise' = "resolved"
                          /\ percent' = MuxStagePercent(10000)
          /\ UNCHANGED result
  /\ UNCHANGED << otherVars, flushCalls, callbackThrew, encodeReports,
                  aborted, processedFrames, resamplingProgress, encoderState,
                  closeCalled, isFlushing, offset, sampleTimestamp,
                  lastTimestamp, chunks, promise, scheduled, submitted,
                  flushCalled, flushResolved, emitted, errorFired,
                  submittedAtError, abortedAt, decoderConfig >>

\* encodeToM4b resumes after await muxAacToM4b
AfterMux ==
  /\ pc = "muxing"
  /\ pc' = "done"
  /\ IF muxPromise = "resolved"
     THEN /\ result' = "success"
          /\ percent' = 10000
     ELSE /\ result' = "error"
          /\ UNCHANGED percent
  /\ UNCHANGED << otherVars, flushCalls, callbackThrew, muxOut,
                  encodeReports, aborted, processedFrames,
                  resamplingProgress, encoderState, closeCalled, isFlushing,
                  offset, sampleTimestamp, lastTimestamp, chunks, promise,
                  scheduled, submitted, flushCalled, flushResolved, emitted,
                  errorFired, submittedAtError, abortedAt, decoderConfig,
                  muxInvoked, muxInput, muxPromise >>

\* the user cancels while encodeToM4b is running; encodeToM4b takes no
\* signal, so nothing in the pipeline reads it
HandleCancel ==
  /\ ~aborted
  /\ pc \in {"checkSupport", "resampling", "encoding", "muxing"}
  /\ aborted' = TRUE
  /\ abortedAt' = IF pc = "encoding" /\ promise = "pending"
                  THEN Len(submitted) ELSE -1
  /\ UNCHANGED << otherVars, flushCalls, callbackThrew, muxOut,
                  encodeReports, pc, result, percent, processedFrames,
                  resamplingProgress, encoderState, closeCalled, isFlushing,
                  offset, sampleTimestamp, lastTimestamp, chunks, promise,
                  scheduled, submitted, flushCalled, flushResolved, emitted,
                  errorFired, submittedAtError, decoderConfig, muxInvoked,
                  muxInput, muxPromise >>

\* ------------------------------------------------------------- time.ts
\* Math.round((frameIndex * 1_000_000) / sampleRate), for the arguments the
\* function does not throw on
framesToTimestampUs(frameIndex, sampleRate) ==
  LET x     == frameIndex * 1000
      r     == x % sampleRate
      whole == (x \div sampleRate) * 1000 + (r * 1000) \div sampleRate
      rest  == (r * 1000) % sampleRate
  IN  whole + RoundUp(rest, sampleRate)

\* faulty variant of microsecondsToTimescaleUnits: truncation, not rounding
microsecondsToTimescaleUnitsFloor(microseconds, timescale) ==
  Max(1, MillionthsQuot(microseconds, timescale))

\* Math.max(1, Math.round((microseconds * timescale) / 1_000_000))
microsecondsToTimescaleUnits(microseconds, timescale) ==
  Max(1, MillionthsQuot(microseconds, timescale)
           + RoundUp(MillionthsRem(microseconds, timescale), UsPerSecond))

\* sample rates of the engines and of the encoder; frame sizes of AAC
TimeRates == {22050, 24000, 44100, TargetRate}
FrameLengths == {960, AacFrame, 2 * AacFrame}

\* the timestamps of frame frameIdx and of the next one are taken
StampFrame ==
  /\ timePc = "stamp"
  /\ frameIdx < MaxRun
  /\ durationUs' = framesToTimestampUs((frameIdx + 1) * frameLen, timeRate)
                     - framesToTimestampUs(frameIdx * frameLen, timeRate)
  /\ timePc' = "units"
  /\ UNCHANGED << timeRate, frameLen, frameIdx, units, durationInTimescale,
                  totalUnits, totalTicks, runVars, appVars, chapVars, extVars >>

\* the frame's duration goes through microsecondsToTimescaleUnits
ConvertUnits ==
  /\ timePc = "units"
  /\ units' = microsecondsToTimescaleUnits(durationUs, timeRate)
  /\ totalUnits' = totalUnits + units'
  /\ timePc' = "mux"
  /\ UNCHANGED << timeRate, frameLen, frameIdx, durationUs,
                  durationInTimescale, totalTicks, runVars, appVars,
                  chapVars, extVars >>

\* the frame's duration goes through the conversion of the muxer's sample
\* loop, and the run moves to the next frame
MuxConvert ==
  /\ timePc = "mux"
  /\ durationInTimescale' = MuxTicks(durationUs, timeRate)
  /\ totalTicks' = totalTicks + durationInTimescale'
  /\ frameIdx' = frameIdx + 1
  /\ timePc' = "stamp"
  /\ UNCHANGED << timeRate, frameLen, durationUs, units, totalUnits,
                  runVars, appVars, chapVars, extVars >>

\* no conversion run
TimeIdle ==
  /\ frameIdx = 0
  /\ timePc = "stamp"
  /\ durationUs = 0
  /\ units = -1
  /\ durationInTimescale = -1
  /\ totalUnits = 0
  /\ totalTicks = 0

\* ------------------------------------------------- createChapterMetadata
RECURSIVE SumSeq(_)
SumSeq(q) == IF q = << >> THEN 0 ELSE Head(q) + SumSeq(Tail(q))

\* extents of the chapters in the input text, and audio durations in seconds
ChapterSpans == {250, 500, 750, 1000, 1250}
AudioSeconds == {25, 50, 100}

\* the Chapter records parseChapters returns for chapters of these extents:
\* a chapter starts where the previous extent ends
ChaptersOf(spans) ==
  [ i \in 1..Len(spans) |->
      [ textLen    |-> spans[i] - MarkerLen,
        startIndex |-> SumSeq(SubSeq(spans, 1, i - 1)) ] ]

\* one iteration of the loop over the chapters
ChapterLoop ==
  /\ chapPc = "loop"
  /\ Len(chapterStarts) < Len(chapterList)
  /\ LET chapter         == chapterList[Len(chapterStarts) + 1]
         startTime       == (currentSample * MsPerSecond) \div SampleRate
         durationSamples == (chapter.textLen * SampleRate) \div CharsPerSecond
     IN  /\ chapterStarts' = Append(chapterStarts, startTime)
         /\ currentSample' = currentSample + durationSamples
  /\ UNCHANGED << chapterList, totalTextLength, totalDurationMs, chapPc,
                  runVars, appVars, timeVars, extVars >>

\* the loop is over: the metadata text is returned
ChapterReturn ==
  /\ chapPc = "loop"
  /\ Len(chapterStarts) = Len(chapterList)
  /\ chapPc' = "returned"
  /\ UNCHANGED << chapterList, totalTextLength, totalDurationMs,
                  currentSample, chapterStarts, runVars, appVars, timeVars,
                  extVars >>

\* no chapter metadata asked for
ChaptersIdle ==
  /\ chapterList = << >>
  /\ totalTextLength = 0
  /\ totalDurationMs = 0
  /\ chapPc = "loop"
  /\ currentSample = 0
  /\ chapterStarts = << >>

\* ------------------------------------------------------ engineFactory.ts
Engines == 1..MaxEngines

\* engine.supportsExport: every engine but the Web Speech one, listed last
supportsExport(e) == e < MaxEngines

\* the answer of engine.isAvailable(), a throw counting as false
IsAvailable(e) == IF engEnv[e] THEN "true" ELSE "false"

\* 'available' as both functions obtain it: from the cache, and from
\* isAvailable() only if the cache has no entry
CachedOrProbed(e) ==
  IF engineAvailability[e] = "undefined"
  THEN IsAvailable(e)
  ELSE engineAvailability[e]

\* getAvailableEngines: every engine is looked up and cached
GetAvailableEngines ==
  /\ engineAvailability' = [e \in Engines |-> CachedOrProbed(e)]
  /\ engResults' = [e \in Engines |-> CachedOrProbed(e)]
  /\ engEnvAtQuery' = engEnv
  /\ UNCHANGED << engEnv, engDefault, baseVars, resVars, synthVars,
                  splitVars, kokoroVars >>

\* getDefaultEngine: the first export-capable engine that is available; the
\* loop, and with it the caching, stops there
GetDefaultEngine ==
  LET usable == { e \in Engines : supportsExport(e)
                                    /\ CachedOrProbed(e) = "true" }
      found  == IF usable = {} THEN 0
                ELSE CHOOSE e \in usable : \A o \in usable : e <= o
  IN  /\ engDefault' = found
      /\ engineAvailability' =
           [e \in Engines |->
              IF supportsExport(e) /\ (found = 0 \/ e <= found)
              THEN CachedOrProbed(e)
              ELSE engineAvailability[e]]
      /\ UNCHANGED << engEnv, engResults, engEnvAtQuery, baseVars, resVars,
                      synthVars, splitVars, kokoroVars >>

\* the environment changes: an engine becomes available or unavailable
\* (a model finishes downloading, WebGPU or the network goes away)
CapabilityChanges(e) ==
  /\ engEnv' = [engEnv EXCEPT ![e] = ~engEnv[e]]
  /\ UNCHANGED << engineAvailability, engResults, engEnvAtQuery, engDefault,
                  baseVars, resVars, synthVars, splitVars, kokoroVars >>

\* the module as loaded: an empty cache, no query made
EnginesFresh ==
  /\ engineAvailability = [e \in Engines |-> "undefined"]
  /\ engResults = [e \in Engines |-> "undefined"]
  /\ engEnvAtQuery = engEnv
  /\ engDefault = -1

EnginesIdle ==
  /\ engEnv = [e \in Engines |-> TRUE]
  /\ EnginesFresh

\* ---------------------------------------------------------- resampleAudio
\* sample rates the engines produce that differ from the target
ResampleRates == {22050, 24000, 44100}

\* resampleAudio renders into an OfflineAudioContext of this length and
\* returns what it rendered
ResampleAudio ==
  /\ outLength = -1
  /\ outLength' = IF inRate = TargetRate THEN inLength
                  ELSE ResampledLength(inLength, inRate, TargetRate)
  /\ UNCHANGED << inLength, inRate, baseVars, engVars, synthVars, splitVars,
                  kokoroVars >>

ResampleIdle ==
  /\ inLength = 1
  /\ inRate = TargetRate
  /\ outLength = -1

\* -------------------------------------------------------- synthesizeToPcm
\* the for loop from its head for index i, up to the next await or the end
\* of the function: the signal is read at the head of an iteration only
LoopFrom(i) ==
  IF i >= synthChunks
  THEN /\ synthResult' = "audio"
       /\ synthPc' = "done"
       /\ UNCHANGED synthIdx
  ELSE IF synthSignal
  THEN /\ synthResult' = "AbortError"
       /\ synthPc' = "done"
       /\ UNCHANGED synthIdx
  ELSE /\ synthIdx' = i
       /\ synthPc' = IF synthEngine = "kokoro" THEN "generate" ELSE "yield"
       /\ UNCHANGED synthResult

\* the first await is over: import('sam-js') for SAM, getKokoroInstance
\* for Kokoro, which reads the signal once before building its chunks
SynthLoaded ==
  /\ synthPc = "loading"
  /\ IF synthEngine = "kokoro" /\ synthSignal
     THEN /\ synthResult' = "AbortError"
          /\ synthPc' = "done"
          /\ UNCHANGED synthIdx
     ELSE LoopFrom(0)
  /\ UNCHANGED << synthEngine, synthChunks, synthSignal, baseVars, engVars,
                  resVars, splitVars, kokoroVars >>

\* Kokoro: tts.generate has answered; the iteration goes on to its pause
SynthGenerated ==
  /\ synthPc = "generate"
  /\ synthPc' = "yield"
  /\ UNCHANGED << synthEngine, synthChunks, synthIdx, synthSignal,
                  synthResult, baseVars, engVars, resVars, splitVars,
                  kokoroVars >>

\* the 10 ms pause at the end of an iteration is over
SynthYielded ==
  /\ synthPc = "yield"
  /\ LoopFrom(synthIdx + 1)
  /\ UNCHANGED << synthEngine, synthChunks, synthSignal, baseVars, engVars,
                  resVars, splitVars, kokoroVars >>

\* the caller aborts while synthesizeToPcm has not returned
SynthAbort ==
  /\ synthResult = "none"
  /\ ~synthSignal
  /\ synthSignal' = TRUE
  /\ UNCHANGED << synthEngine, synthChunks, synthPc, synthIdx, synthResult,
                  baseVars, engVars, resVars, splitVars, kokoroVars >>

\* synthesizeToPcm called, waiting at its first await
SynthCalled ==
  /\ synthPc = "loading"
  /\ synthIdx = 0
  /\ synthSignal = FALSE
  /\ synthResult = "none"

SynthIdle ==
  /\ synthEngine = "sam"
  /\ synthChunks = 1
  /\ SynthCalled

\* ----------------------------------------------------- splitTextIntoParts
\* the words a..b of the text, named by their positions
SeqRange(a, b) == [i \in 1..(b - a + 1) |-> a + i - 1]

\* positions of the words that end with '.', '!' or '?'
SentenceEnds(text) == { i \in 1..Len(text) : text[i] }

\* the matches of /[^.!?]+[.!?]+/g from word position from on: each match
\* runs up to the next word that ends a sentence; words after the last such
\* word belong to no match
RECURSIVE SentencesFrom(_, _)
SentencesFrom(text, from) ==
  LET ends == { e \in SentenceEnds(text) : e >= from } IN
  IF ends = {} THEN << >>
  ELSE LET e == CHOOSE x \in ends : \A y \in ends : x <= y
       IN  << SeqRange(from, e) >> \o SentencesFrom(text, e + 1)

\* the sentences array: the matches, or the entire text if there is none
Sentences(text) ==
  IF SentenceEnds(text) = {}
  THEN << SeqRange(1, Len(text)) >>
  ELSE SentencesFrom(text, 1)

\* one iteration of the loop over the sentences
SplitStep ==
  /\ splitPc = "loop"
  /\ sentIdx < Len(Sentences(splitText))
  /\ LET sentenceWords     == Sentences(splitText)[sentIdx + 1]
         sentenceWordCount == Len(sentenceWords)
     IN  IF sentenceWordCount > targetWordsPerPart /\ currentSentences = 0
         THEN /\ parts' = Append(parts, sentenceWords)
              /\ UNCHANGED << currentPart, currentSentences,
                              currentWordCount >>
         ELSE IF currentWordCount + sentenceWordCount > targetWordsPerPart
                   /\ currentSentences > 0
         THEN /\ parts' = IF currentPart # << >>
                          THEN Append(parts, currentPart) ELSE parts
              /\ currentPart' = sentenceWords
              /\ currentSentences' = 1
              /\ currentWordCount' = sentenceWordCount
         ELSE /\ currentPart' = currentPart \o sentenceWords
              /\ currentSentences' = currentSentences + 1
              /\ currentWordCount' = currentWordCount + sentenceWordCount
              /\ UNCHANGED parts
  /\ sentIdx' = sentIdx + 1
  /\ UNCHANGED << splitText, targetWordsPerPart, splitPc, baseVars, engVars,
                  resVars, synthVars, kokoroVars >>

\* the loop is over: the final part is added and the parts are returned
SplitReturn ==
  /\ splitPc = "loop"
  /\ sentIdx = Len(Sentences(splitText))
  /\ parts' = IF currentSentences > 0 /\ currentPart # << >>
              THEN Append(parts, currentPart) ELSE parts
  /\ splitPc' = "returned"
  /\ UNCHANGED << splitText, targetWordsPerPart, sentIdx, currentPart,
                  currentSentences, currentWordCount, baseVars, engVars,
                  resVars, synthVars, kokoroVars >>

\* splitTextIntoParts called, before its loop
SplitCalled ==
  /\ splitPc = "loop"
  /\ sentIdx = 0
  /\ currentPart = << >>
  /\ currentSentences = 0
  /\ currentWordCount = 0
  /\ parts = << >>

SplitIdle ==
  /\ splitText = << FALSE >>
  /\ targetWordsPerPart = 1
  /\ SplitCalled

\* ------------------------------------------------------ getKokoroInstance
Callers == 1..MaxCallers

\* caller c calls getKokoroInstance: for the first time, or again after the
\* promise it was given rejected
GetKokoroInstance(c) ==
  /\ kokoroCallers[c] \in {"idle", "failed"}
  /\ IF kokoroInstance # "null"
     THEN /\ kokoroReturned' = "instance"
          /\ kokoroCallers' = [kokoroCallers EXCEPT ![c] = "tts"]
          /\ UNCHANGED << kokoroLoading, kokoroLoads, kokoroJoinedRejected >>
     ELSE IF kokoroLoading # "null"
     THEN /\ kokoroReturned' = "joined"
          /\ kokoroJoinedRejected' = (kokoroLoading = "rejected")
          /\ kokoroCallers' =
               [kokoroCallers EXCEPT
                  ![c] = IF kokoroLoading = "rejected" THEN "failed"
                         ELSE "waiting"]
          /\ UNCHANGED << kokoroLoading, kokoroLoads >>
     ELSE /\ kokoroLoading' = "pending"
          /\ kokoroLoads' = kokoroLoads + 1
          /\ kokoroReturned' = "fresh"
          /\ kokoroCallers' = [kokoroCallers EXCEPT ![c] = "waiting"]
          /\ UNCHANGED kokoroJoinedRejected
  /\ UNCHANGED << kokoroInstance, baseVars, engVars, resVars, synthVars,
                  splitVars >>

\* the load finishes: from_pretrained returned the model
KokoroLoadResolves ==
  /\ kokoroLoading = "pending"
  /\ kokoroInstance' = "tts"
  /\ kokoroLoading' = "resolved"
  /\ kokoroCallers' = [c \in Callers |->
                         IF kokoroCallers[c] = "waiting" THEN "tts"
                         ELSE kokoroCallers[c]]
  /\ UNCHANGED << kokoroReturned, kokoroJoinedRejected, kokoroLoads,
                  baseVars, engVars, resVars, synthVars, splitVars >>

\* the load fails: the import or the model download rejects
KokoroLoadRejects ==
  /\ kokoroLoading = "pending"
  /\ kokoroLoading' = "rejected"
  /\ kokoroCallers' = [c \in Callers |->
                         IF kokoroCallers[c] = "waiting" THEN "failed"
                         ELSE kokoroCallers[c]]
  /\ UNCHANGED << kokoroInstance, kokoroReturned, kokoroJoinedRejected,
                  kokoroLoads, baseVars, engVars, resVars, synthVars,
                  splitVars >>

\* the module as loaded: no instance, no load, no call
KokoroIdle ==
  /\ kokoroInstance = "null"
  /\ kokoroLoading = "null"
  /\ kokoroReturned = "none"
  /\ kokoroJoinedRejected = FALSE
  /\ kokoroLoads = 0
  /\ kokoroCallers = [c \in Callers |-> "idle"]

\* ------------------------------------------------------- specification
\* no generation run in the App
AppIdle ==
  /\ appPc = "idle"
  /\ partIdx = 0
  /\ partStatus = [p \in 1..MaxParts |-> "pending"]
  /\ partError = [p \in 1..MaxParts |-> "none"]
  /\ signalAborted = FALSE
  /\ isGenerating = FALSE
  /\ useMultiPart = FALSE
  /\ cancelledParts = {}

\* no encodeToM4b call made yet
SessionIdle ==
  /\ pc = "idle"
  /\ result = "none"
  /\ percent = -1
  /\ aborted = FALSE
  /\ processedFrames = 0
  /\ resamplingProgress = 0
  /\ encoderState = "none"
  /\ closeCalled = FALSE
  /\ isFlushing = FALSE
  /\ offset = 0
  /\ sampleTimestamp = 0
  /\ lastTimestamp = 0
  /\ chunks = << >>
  /\ promise = "none"
  /\ scheduled = "none"
  /\ submitted = << >>
  /\ flushCalled = FALSE
  /\ flushResolved = FALSE
  /\ emitted = {}
  /\ errorFired = FALSE
  /\ submittedAtError = 0
  /\ abortedAt = -1
  /\ decoderConfig = "null"
  /\ muxInvoked = FALSE
  /\ muxInput = << >>
  /\ muxPromise = "none"
  /\ encodeReports = 0
  /\ flushCalls = 0
  /\ callbackThrew = FALSE
  /\ samples = << >>
  /\ chapterTrack = FALSE
  /\ trackDescription = "unset"
  /\ payloadLen = -1
  /\ payloadAllZero = FALSE

Init ==
  /\ audioFrames \in 0..MaxFrames
  /\ audioRate \in InputRates
  /\ channels \in Channels
  /\ monoSupported \in BOOLEAN
  /\ stereoSupported \in BOOLEAN
  /\ hasIdleCallback \in BOOLEAN
  /\ numChapters \in 0..MaxChapters
  /\ SessionIdle
  /\ numParts = 1
  /\ m4bSupported = FALSE
  /\ AppIdle
  /\ timeRate = TargetRate
  /\ frameLen = AacFrame
  /\ TimeIdle
  /\ ChaptersIdle
  /\ EnginesIdle
  /\ ResampleIdle
  /\ SynthIdle
  /\ SplitIdle
  /\ KokoroIdle

Next ==
  \/ EncodeToM4b
  \/ SupportChecked
  \/ ResampleDone
  \/ ScheduledCallback
  \/ CallbackThrows
  \/ \E j \in 0..MaxFrames : EncoderOutput(j)
  \/ EncoderError
  \/ FlushResolved
  \/ AfterEncode
  \/ AfterMux
  \/ HandleCancel

Spec == Init /\ [][Next]_vars

\* ============================================== App: multi-part generation
\* handleGenerate and handleCancel of App.tsx.  synthesizeToPcm, encodeToMp3
\* and encodeToM4b are awaited calls: each either resolves or rejects, and
\* the handler continues from there.  The progress field of PartState is
\* left out; only status and error are kept.
Parts == 1..numParts

ActiveStatuses == {"generating", "encoding-mp3", "encoding-m4b"}

SetStatus(st, p, v) == [st EXCEPT ![p] = v]

\* head of the for loop for partNumber k, entered with the part table st
LoopHead(k, st) ==
  IF k > numParts \/ signalAborted
  THEN /\ appPc' = "finished"
       /\ isGenerating' = FALSE
       /\ partStatus' = st
       /\ UNCHANGED partIdx
  ELSE /\ appPc' = "synth"
       /\ partIdx' = k
       /\ partStatus' = SetStatus(st, k, "generating")
       /\ UNCHANGED isGenerating

HandleGenerate ==
  /\ appPc = "idle"
  /\ signalAborted' = FALSE
  /\ useMultiPart' = (numParts > 1)
  /\ isGenerating' = TRUE
  /\ IF numParts > 1
     THEN /\ appPc' = "synth"
          /\ partIdx' = 1
          /\ partStatus' = SetStatus([p \in 1..MaxParts |-> "pending"], 1, "generating")
     ELSE /\ appPc' = "single"
          /\ UNCHANGED << partIdx, partStatus >>
  /\ UNCHANGED << encVars, numParts, m4bSupported, partError, cancelledParts >>

\* synthesizeToPcm returned the part's audio
SynthResolved ==
  /\ appPc = "synth"
  /\ partStatus' = SetStatus(partStatus, partIdx, "encoding-mp3")
  /\ appPc' = "mp3"
  /\ UNCHANGED << encVars, numParts, m4bSupported, partIdx, partError,
                  signalAborted, isGenerating, useMultiPart, cancelledParts >>

\* the catch block of one part: anything but an AbortError marks the part
CatchBlock(name) ==
  IF name # "AbortError"
  THEN /\ partError' = [partError EXCEPT ![partIdx] = "failure"]
       /\ LoopHead(partIdx + 1, SetStatus(partStatus, partIdx, "error"))
  ELSE /\ UNCHANGED partError
       /\ LoopHead(partIdx + 1, partStatus)

\* synthesizeToPcm threw: an AbortError once the signal is raised, or a failure
SynthRejected ==
  /\ appPc = "synth"
  /\ \E name \in {"AbortError", "Error"} :
       /\ name = "AbortError" => signalAborted
       /\ CatchBlock(name)
  /\ UNCHANGED << encVars, numParts, m4bSupported, signalAborted,
                  useMultiPart, cancelledParts >>

\* encodeToMp3 returned
Mp3Resolved ==
  /\ appPc = "mp3"
  /\ IF m4bSupported
     THEN /\ partStatus' = SetStatus(partStatus, partIdx, "encoding-m4b")
          /\ appPc' = "m4b"
          /\ UNCHANGED << partIdx, isGenerating >>
     ELSE LoopHead(partIdx + 1, SetStatus(partStatus, partIdx, "completed"))
  /\ UNCHANGED << encVars, numParts, m4bSupported, partError, signalAborted,
                  useMultiPart, cancelledParts >>

\* encodeToMp3 threw
Mp3Rejected ==
  /\ appPc = "mp3"
  /\ CatchBlock("Error")
  /\ UNCHANGED << encVars, numParts, m4bSupported, signalAborted,
                  useMultiPart, cancelledParts >>

\* encodeToM4b returned
M4bResolved ==
  /\ appPc = "m4b"
  /\ LoopHead(partIdx + 1, SetStatus(partStatus, partIdx, "completed"))
  /\ UNCHANGED << encVars, numParts, m4bSupported, partError, signalAborted,
                  useMultiPart, cancelledParts >>

\* encodeToM4b threw
M4bRejected ==
  /\ appPc = "m4b"
  /\ CatchBlock("Error")
  /\ UNCHANGED << encVars, numParts, m4bSupported, signalAborted,
                  useMultiPart, cancelledParts >>

\* single-part branch: synthesizeToPcm settled either way
SingleSettled ==
  /\ appPc = "single"
  /\ appPc' = "finished"
  /\ isGenerating' = FALSE
  /\ UNCHANGED << encVars, numParts, m4bSupported, partIdx, partStatus,
                  partError, signalAborted, useMultiPart, cancelledParts >>

\* the Cancel button, shown while isGenerating
AppHandleCancel ==
  /\ isGenerating
  /\ signalAborted' = TRUE
  /\ LET active == { p \in Parts : partStatus[p] \in ActiveStatuses } IN
     IF useMultiPart
     THEN /\ partStatus' = [p \in 1..MaxParts |->
                              IF p \in active THEN "error" ELSE partStatus[p]]
          /\ partError' = [p \in 1..MaxParts |->
                              IF p \in active THEN "Cancelled" ELSE partError[p]]
          /\ cancelledParts' = cancelledParts \cup active
     ELSE UNCHANGED << partStatus, partError, cancelledParts >>
  /\ UNCHANGED << encVars, numParts, m4bSupported, appPc, partIdx,
                  isGenerating, useMultiPart >>

InitApp ==
  /\ audioFrames = 0
  /\ audioRate = SampleRate
  /\ channels = 1
  /\ monoSupported = TRUE
  /\ stereoSupported = TRUE
  /\ hasIdleCallback = TRUE
  /\ numChapters = 0
  /\ SessionIdle
  /\ numParts \in 1..MaxParts
  /\ m4bSupported \in BOOLEAN
  /\ AppIdle
  /\ timeRate = TargetRate
  /\ frameLen = AacFrame
  /\ TimeIdle
  /\ ChaptersIdle
  /\ EnginesIdle
  /\ ResampleIdle
  /\ SynthIdle
  /\ SplitIdle
  /\ KokoroIdle

NextApp ==
  \/ HandleGenerate
  \/ SynthResolved
  \/ SynthRejected
  \/ Mp3Resolved
  \/ Mp3Rejected
  \/ M4bResolved
  \/ M4bRejected
  \/ SingleSettled
  \/ AppHandleCancel

SpecApp == InitApp /\ [][NextApp]_vars

\* ---- the time conversions applied to a run of equal frames
\* no audio handed to encodeToM4b, no generation in the App
NoCall ==
  /\ audioFrames = 0
  /\ audioRate = SampleRate
  /\ channels = 1
  /\ monoSupported = TRUE
  /\ stereoSupported = TRUE
  /\ hasIdleCallback = TRUE
  /\ numChapters = 0
  /\ SessionIdle
  /\ numParts = 1
  /\ m4bSupported = FALSE
  /\ AppIdle

InitTime ==
  /\ NoCall
  /\ ChaptersIdle
  /\ EnginesIdle
  /\ ResampleIdle
  /\ SynthIdle
  /\ SplitIdle
  /\ KokoroIdle
  /\ timeRate \in TimeRates
  /\ frameLen \in FrameLengths
  /\ TimeIdle

NextTime ==
  \/ StampFrame
  \/ ConvertUnits
  \/ MuxConvert

SpecTime == InitTime /\ [][NextTime]_vars

\* ---- createChapterMetadata applied to the chapters of a text
InitChapters ==
  /\ NoCall
  /\ EnginesIdle
  /\ ResampleIdle
  /\ SynthIdle
  /\ SplitIdle
  /\ KokoroIdle
  /\ timeRate = TargetRate
  /\ frameLen = AacFrame
  /\ TimeIdle
  /\ \E n \in 1..MaxChapters : \E spans \in [1..n -> ChapterSpans] :
       /\ chapterList = ChaptersOf(spans)
       /\ totalTextLength = SumSeq(spans)
  /\ totalDurationMs \in { sec * MsPerSecond : sec \in AudioSeconds }
  /\ chapPc = "loop"
  /\ currentSample = 0
  /\ chapterStarts = << >>

NextChapters ==
  \/ ChapterLoop
  \/ ChapterReturn

SpecChapters == InitChapters /\ [][NextChapters]_vars

\* ---- the engine factory queried while the environment changes
CalcIdle ==
  /\ timeRate = TargetRate
  /\ frameLen = AacFrame
  /\ TimeIdle
  /\ ChaptersIdle

InitEngines ==
  /\ NoCall
  /\ CalcIdle
  /\ ResampleIdle
  /\ SynthIdle
  /\ SplitIdle
  /\ KokoroIdle
  /\ engEnv \in [Engines -> BOOLEAN]
  /\ EnginesFresh

NextEngines ==
  \/ GetAvailableEngines
  \/ GetDefaultEngine
  \/ \E e \in Engines : CapabilityChanges(e)

SpecEngines == InitEngines /\ [][NextEngines]_vars

\* ---- resampleAudio applied to buffers at the engines' rates
InitResample ==
  /\ NoCall
  /\ CalcIdle
  /\ EnginesIdle
  /\ SynthIdle
  /\ SplitIdle
  /\ KokoroIdle
  /\ inLength \in 1..MaxInLength
  /\ inRate \in ResampleRates
  /\ outLength = -1

NextResample == ResampleAudio

SpecResample == InitResample /\ [][NextResample]_vars

\* ---- one synthesizeToPcm call and the caller's abort
InitSynth ==
  /\ NoCall
  /\ CalcIdle
  /\ EnginesIdle
  /\ ResampleIdle
  /\ SplitIdle
  /\ KokoroIdle
  /\ synthEngine \in {"sam", "kokoro"}
  /\ synthChunks \in 1..MaxSynthChunks
  /\ SynthCalled

NextSynth ==
  \/ SynthLoaded
  \/ SynthGenerated
  \/ SynthYielded
  \/ SynthAbort

SpecSynth == InitSynth /\ [][NextSynth]_vars

\* ---- splitTextIntoParts applied to a text and a target size
InitSplit ==
  /\ NoCall
  /\ CalcIdle
  /\ EnginesIdle
  /\ ResampleIdle
  /\ SynthIdle
  /\ KokoroIdle
  /\ \E n \in 1..MaxWords : splitText \in [1..n -> BOOLEAN]
  /\ targetWordsPerPart \in 1..MaxTarget
  /\ SplitCalled

NextSplit ==
  \/ SplitStep
  \/ SplitReturn

SpecSplit == InitSplit /\ [][NextSplit]_vars

\* ---- the shared Kokoro loader and its callers
InitKokoro ==
  /\ NoCall
  /\ CalcIdle
  /\ EnginesIdle
  /\ ResampleIdle
  /\ SynthIdle
  /\ SplitIdle
  /\ KokoroIdle

NextKokoro ==
  \/ \E c \in Callers : GetKokoroInstance(c)
  \/ KokoroLoadResolves
  \/ KokoroLoadRejects

SpecKokoro == InitKokoro /\ [][NextKokoro]_vars

\* =================================================================== claims
RECURSIVE SumDurations(_)
SumDurations(s) ==
  IF s = << >> THEN 0 ELSE Head(s).duration + SumDurations(Tail(s))

Abs(x) == IF x < 0 THEN 0 - x ELSE x

C2_NeverDeferred ==
  /\ scheduled = "none"
  /\ \A i \in 1..Len(submitted) : submitted[i].ctx = "sync"

\* C3: after a successful encode the durations of the collected frames add up
\* to the duration of the PCM buffer, to within one frame period.
C3_NoLoss ==
  (pc = "done" /\ result = "success")
    => Abs(SumDurations(muxInput) - TotalDurationUs) <= FramePeriodUs

\* C4: whenever the session's result or error has been surfaced, an encoder
\* that was allocated has been closed.
C4_ClosedOnExit ==
  pc = "done" => encoderState \in {"none", "closed"}

\* C5: after a cancel in mid-encode no further chunk is submitted, flush is
\* still called, the encoder is released and the call ends as canceled,
\* never with a container output.
C5_CancelReleases ==
  abortedAt # -1 =>
    /\ Len(submitted) = abortedAt
    /\ pc = "done" => /\ result = "canceled"
                      /\ flushCalled
                      /\ encoderState = "closed"

\* C7: once the encoder has reported an error no further chunk is submitted,
\* the muxer is never invoked and the call ends with the error.
C7_ErrorAbortsSession ==
  errorFired =>
    /\ Len(submitted) = submittedAtError
    /\ ~muxInvoked
    /\ result # "success"
    /\ pc = "done" => result = "error"

C7_Witness ==
  /\ errorFired
  /\ pc = "done"
  /\ Len(submitted) > 0
  /\ Len(submitted) < NumChunks
  /\ Len(chunks) > 0

C9_MuxInputSorted ==
  muxInvoked =>
    \A i \in 1..(Len(muxInput) - 1) :
      muxInput[i + 1].timestamp >= muxInput[i].timestamp

\* C10: every collected frame has a duration greater than zero.
C10_PositiveDuration ==
  \A i \in 1..Len(chunks) : chunks[i].duration > 0

\* C6: a part that was in progress when the user cancelled is never shown
\* with the error status.
C6_CancelIsNotError ==
  \A p \in cancelledParts : partStatus[p] # "error"

\* C11: a call of encodeToM4b that succeeds never returns a payload that is
\* zero-length or all-zero; such a muxer output makes the call fail.
C11_NoEmptySuccess ==
  result = "success" => payloadLen > 0 /\ ~payloadAllZero

\* C12: across one encodeToM4b call the percent values given to the caller's
\* progress callback never decrease.
C12_NonDecreasing == [][percent' >= percent]_vars

\* C13: during the encode stage the reported percent is at most 99 (of the
\* stage) while flush has not resolved, and is 100 once flush has resolved.
C13_CappedUntilFlush ==
  pc = "encoding" =>
    IF flushResolved
    THEN percent = EncodeStagePercent(10000)
    ELSE percent <= EncodeStagePercent(9900)

\* C14: when the encode stage has completed, the progress callback was invoked
\* during encoding at least once per chunk submitted to the encoder, and the
\* caller was given the stage's starting percent at each stage transition.
C14_ProgressPerChunk ==
  /\ flushResolved => encodeReports >= Len(submitted)
  /\ pc \in {"resampling", "encoding"} => percent >= EncodeStagePercent(0)
  /\ pc = "muxing" => percent >= MuxStagePercent(0)
  /\ result = "success" => percent = 10000

C14_Witness ==
  /\ flushResolved /\ Len(submitted) >= 2
  /\ encodeReports >= Len(submitted)
  /\ result = "success"

\* C16: every sample added to the container has a duration of at least one
\* timescale tick.
C16_MinOneTick ==
  \A i \in 1..Len(samples) : samples[i].duration >= 1

\* C18: whenever at least two chapters are supplied, the muxed output carries
\* a chapter text track.
C18_ChapterTrackEmbedded ==
  (result = "success" /\ numChapters >= 2) => chapterTrack

\* C19: with zero or one chapter the muxer output has no chapter track, and a
\* mux that was given chunks and produced bytes does not fail.
C19_NoChaptersNoTrack ==
  numChapters < 2 =>
    /\ ~chapterTrack
    /\ (muxInvoked /\ Len(muxInput) > 0 /\ payloadLen > 0)
         => muxPromise = "resolved"

C19_Witness ==
  numChapters = 1 /\ result = "success" /\ Len(samples) > 0

\* C15: for 1024-sample frames at 48 kHz with timescale 48000 the muxer
\* writes every frame with a duration of exactly 1024 ticks, so the frames
\* converted so far total 1024 ticks each.
C15_ExactFrameTicks ==
  (timeRate = TargetRate /\ frameLen = AacFrame /\ frameIdx > 0) =>
    /\ durationInTimescale = AacFrame
    /\ totalTicks = frameIdx * AacFrame

C20_ProportionalStart ==
  chapPc = "returned" =>
    \A i \in 1..Len(chapterList) :
      chapterStarts[i] * totalTextLength
        = chapterList[i].startIndex * totalDurationMs

\* C21: on every successful encode the audio track was set up with the
\* decoder configuration description the codec emitted.
C21_DescriptionThreaded ==
  result = "success" => decoderConfig = "desc" /\ trackDescription = "desc"

\* C24: within one encode session encoder.flush() is invoked at most once.
C24_FlushAtMostOnce == flushCalls <= 1

C24_Witness ==
  /\ flushCalls = 1 /\ flushResolved
  /\ Len(submitted) >= 2
  /\ \E i \in 1..Len(submitted) : submitted[i].ctx # "sync"

\* C25: the timestamp of every AudioData submitted to the encoder is the
\* microsecond position of its first frame,
\* round(firstFrameIndex * 1_000_000 / sampleRate).
C25_TimestampIsPosition ==
  \A i \in 1..Len(submitted) :
    submitted[i].timestamp
      = framesToTimestampUs(submitted[i].start, SampleRate)

\* C26: an encode session whose promise is pending always has something
\* left that will settle it: a scheduled processNextChunk, or a flush that
\* was called and is still to be answered.
C26_PendingHasContinuation ==
  (pc = "encoding" /\ promise = "pending") =>
    \/ scheduled # "none"
    \/ flushCalled /\ ~flushResolved

\* C27: in multi-part generation a part whose status is 'completed' or
\* 'error' keeps that status for the rest of the run.
C27_TerminalAbsorbing ==
  [][\A p \in 1..MaxParts :
        (isGenerating /\ partStatus[p] \in {"completed", "error"})
          => partStatus'[p] = partStatus[p]]_vars

\* C22: the availability a query returns for an engine is the engine's
\* availability at the time of the query, whatever an earlier query found.
C22_QueryReflectsEnvironment ==
  \A e \in Engines :
    engResults[e] # "undefined" =>
      engResults[e] = (IF engEnvAtQuery[e] THEN "true" ELSE "false")

\* C23: resampling inputLength frames from inputRate to a different target
\* rate yields round(inputLength * targetRate / inputRate) frames.
C23_RoundedLength ==
  (outLength # -1 /\ inRate # TargetRate) =>
    outLength = (inLength * TargetRate) \div inRate
                  + RoundUp((inLength * TargetRate) % inRate, inRate)

\* C28: a synthesizeToPcm call whose signal was raised before it returned
\* never returns a PcmAudio.
C28_AbortNeverReturnsAudio ==
  synthResult = "audio" => ~synthSignal

RECURSIVE Flatten(_)
Flatten(ps) == IF ps = << >> THEN << >> ELSE Head(ps) \o Flatten(Tail(ps))

\* C29: the words of the parts, concatenated in partNumber order, are the
\* words of the input text, each once and in order.
C29_NothingLostOrDuplicated ==
  splitPc = "returned" => Flatten(parts) = SeqRange(1, Len(splitText))

\* C30: a call of getKokoroInstance never returns a promise that had
\* already rejected: after a failed load a later call starts a fresh one.
C30_NoRejectedPromiseReturned == ~kokoroJoinedRejected
====
